---- MODULE Spec2Model ----
(***************************************************************************)
(* Model of lumibot's bar normalisation layer:                             *)
(*   lumibot/entities/bars.py          class Bars, NoBarDataFound          *)
(*   lumibot/data_sources/alpaca_data.py  class AlpacaData                 *)
(*                                                                         *)
(* A pandas DataFrame is a sequence of rows; a row is a record whose       *)
(* field "timestamp" is the index value and whose other fields are the     *)
(* columns.  Frames live in a heap and are named by reference, because the *)
(* code hands the same frame object to several holders.  Prices, volumes   *)
(* and dividends are integers; the derived columns are exact rationals     *)
(* <<numerator, denominator>>, with <<0, 0>> standing for NaN (IEEE        *)
(* rounding of the float arithmetic is not modelled).  Time is counted in  *)
(* ticks of 1/TicksPerSecond second.                                       *)
(***************************************************************************)
EXTENDS Integers, Sequences, FiniteSets, TLC

VARIABLES
    heap,      \* reference -> frame slot: the DataFrame objects alive
    bars,      \* the Bars objects built so far, in order of construction
    ret,       \* the last call on Bars / the normaliser: arguments and outcome
    fetch,     \* the running AlpacaData._pull_source_bars invocation
    api_calls  \* the provider calls (api.get_barset) made by that invocation

vars == <<heap, bars, ret, fetch, api_calls>>

---------------------------------------------------------------------------
\* Bounds of the model.

MaxLen == 2          \* most rows of a bar list / raw frame given to construction
MaxSeries == 3       \* most rows of a series that is queried or filtered
MaxTime == 2         \* the latest tick an input bar may carry
MaxObjs == 2         \* most Bars objects followed at once
TicksPerSecond == 2  \* clock resolution below the second
MaxLimit == 2        \* largest `length` asked of the fetcher

Times == 0 .. MaxTime
Refs == 1 .. (MaxObjs + 1)

---------------------------------------------------------------------------
\* Exact rational arithmetic standing for the float columns.

NaN == <<0, 0>>

Abs(x) == IF x < 0 THEN -x ELSE x

RECURSIVE GCD(_, _)
GCD(a, b) == IF b = 0 THEN a ELSE GCD(b, a % b)

Rat(n, d) ==
    IF d = 0 THEN NaN
    ELSE LET g == GCD(Abs(n), Abs(d))
             s == IF d < 0 THEN -1 ELSE 1
         IN  <<(s * n) \div g, (s * d) \div g>>

IsNaN(q) == q[2] = 0

RatAdd(a, b) ==
    IF IsNaN(a) \/ IsNaN(b) THEN NaN
    ELSE Rat(a[1] * b[2] + b[1] * a[2], a[2] * b[2])

RatSub(a, b) ==
    IF IsNaN(a) \/ IsNaN(b) THEN NaN
    ELSE Rat(a[1] * b[2] - b[1] * a[2], a[2] * b[2])

\* Series.pct_change(periods): data / data.shift(periods) - 1
PctChange(xs, periods) ==
    [i \in 1 .. Len(xs) |->
        IF i - periods < 1 THEN NaN
        ELSE RatSub(Rat(xs[i], xs[i - periods]), Rat(1, 1))]

---------------------------------------------------------------------------
\* Generic sequence helpers.

RECURSIVE SumVolume(_)
SumVolume(rows) ==
    IF rows = <<>> THEN 0 ELSE Head(rows).volume + SumVolume(Tail(rows))

RECURSIVE MinLow(_)
MinLow(rows) ==
    IF Len(rows) = 1 THEN rows[1].low
    ELSE LET m == MinLow(Tail(rows))
         IN  IF rows[1].low < m THEN rows[1].low ELSE m

RECURSIVE MaxHigh(_)
MaxHigh(rows) ==
    IF Len(rows) = 1 THEN rows[1].high
    ELSE LET m == MaxHigh(Tail(rows))
         IN  IF rows[1].high > m THEN rows[1].high ELSE m

Column(rows, c) == [i \in 1 .. Len(rows) |-> rows[i][c]]

\* the columns of a non-empty frame
Columns(rows) == DOMAIN rows[1] \ {"timestamp"}

---------------------------------------------------------------------------
\* str.upper() on the strings the model uses.

Upper(s) ==
    CASE s = "alpaca" -> "ALPACA"
      [] s = "Yahoo"  -> "YAHOO"
      [] s = "aapl"   -> "AAPL"
      [] s = "Msft"   -> "MSFT"
      [] OTHER        -> s

---------------------------------------------------------------------------
\* Inputs.  A bar list or raw frame is drawn by choosing the timestamp of
\* each of its rows (any order, repeats allowed: the code accepts them); row i
\* carries the i-th quote of QuoteTable.

QuoteTable ==
    << [open |-> 98,  high |-> 102, low |-> 97, close |-> 100, volume |-> 10, dividend |-> 0],
       [open |-> 100, high |-> 101, low |-> 99, close |-> 101, volume |-> 20, dividend |-> 1],
       [open |-> 101, high |-> 103, low |-> 98, close |-> 99,  volume |-> 30, dividend |-> 0],
       [open |-> 99,  high |-> 104, low |-> 96, close |-> 103, volume |-> 40, dividend |-> 2] >>

Quote(i) == QuoteTable[((i - 1) % Len(QuoteTable)) + 1]

TimeSeqs(maxLen) == UNION {[1 .. n -> Times] : n \in 0 .. maxLen}

\* a bar record as a provider hands it over: with or without dividend fields
RawBar(i, t, withDividend) ==
    LET q == Quote(i)
        ohlcv == [timestamp |-> t, open |-> q.open, high |-> q.high,
                  low |-> q.low, close |-> q.close, volume |-> q.volume]
    IN  IF withDividend
        THEN ohlcv @@ [dividend |-> q.dividend, stock_splits |-> 0]
        ELSE ohlcv

RawRows(ts, withDividend) == [i \in 1 .. Len(ts) |-> RawBar(i, ts[i], withDividend)]

Requests ==
    { [source |-> "alpaca", asset |-> [symbol |-> "aapl"]],
      [source |-> "Yahoo",  asset |-> [symbol |-> "Msft"]] }

\* optional datetime argument: <<>> is None, <<t>> is the instant t
\* the raw tables a caller may hold: up to maxLen rows
RawTables(maxLen, withDividend) ==
    {RawRows(ts, withDividend) : ts \in TimeSeqs(maxLen)}

Optional(S) == {<<>>} \cup {<<t>> : t \in S}

\* resampling widths in ticks ("500ms"-like, one second, two seconds)
Frequencies == {1, TicksPerSecond, 2 * TicksPerSecond}

---------------------------------------------------------------------------
\* The heap of DataFrame objects.

FreeSlot == [live |-> FALSE, rows |-> <<>>]

HasFree(h) == \E r \in Refs : ~h[r].live

Alloc(h) == CHOOSE r \in Refs : ~h[r].live /\ \A q \in Refs : q < r => h[q].live

Store(h, r, rows) == [h EXCEPT ![r] = [live |-> TRUE, rows |-> rows]]

\* reference counting: a frame nobody holds any more is released
Collect(h, bs, rt) ==
    LET held == {bs[i].df : i \in 1 .. Len(bs)}
                  \cup (IF rt.kind = "frame" THEN {rt.ref} ELSE {})
    IN  [r \in Refs |-> IF r \in held THEN h[r] ELSE FreeSlot]

Rows(h, b) == h[b.df].rows

---------------------------------------------------------------------------
\* lumibot/entities/bars.py

NoBarDataFound(source, asset) ==
    [type |-> "NoBarDataFound", source |-> source, asset |-> asset]

KeyError(key) == [type |-> "KeyError", key |-> key]

TypeError == [type |-> "TypeError"]

Raise(e) == [ok |-> FALSE, exc |-> e]

\* Bars.__init__(self, df, source, asset, raw=None), called with the
\* arguments `args` binds; df is a reference into h
BarsInit(h, args) ==
    IF ~({"df", "source", "asset"} \subseteq DOMAIN args)
    THEN Raise(TypeError)
    ELSE IF Len(h[args.df].rows) = 0
    THEN Raise(NoBarDataFound(args.source, args.asset))
    ELSE [ok  |-> TRUE,
          obj |-> [df     |-> args.df,
                   source |-> Upper(args.source),
                   asset  |-> args.asset,
                   symbol |-> Upper(args.asset.symbol),
                   raw    |-> IF "raw" \in DOMAIN args THEN <<args.raw>> ELSE <<>>]]

\* the three columns parse_bar_list adds (bars.py 55-57)
DerivedColumns(rows) ==
    LET pc == PctChange(Column(rows, "close"), 1)
    IN  [i \in 1 .. Len(rows) |->
            LET dy == Rat(rows[i].dividend, rows[i].close)
            IN  [price_change |-> pc[i], dividend_yield |-> dy,
                 return |-> RatAdd(dy, pc[i])] @@ rows[i]]

\* Bars.parse_bar_list(cls, bar_list, source, asset)
ParseBarList(h, bar_list, source, asset) ==
    IF bar_list = <<>> \/ "timestamp" \notin DOMAIN bar_list[1]
    THEN Raise(KeyError("timestamp"))       \* df.set_index("timestamp")
    ELSE IF "close" \notin DOMAIN bar_list[1]
    THEN Raise(KeyError("close"))           \* df["close"]
    ELSE IF "dividend" \notin DOMAIN bar_list[1]
    THEN Raise(KeyError("dividend"))        \* df["dividend"]
    ELSE LET r  == Alloc(h)
             h2 == Store(h, r, DerivedColumns(bar_list))
         IN  BarsInit(h2, [df |-> r, source |-> source, asset |-> asset,
                           raw |-> bar_list]) @@ [heap |-> h2]

\* int(index.timestamp()): the instant in whole epoch seconds (bars.py 75)
ToEpochSeconds(t) == t \div TicksPerSecond

\* row.get(key, default) on a row of the frame (bars.py 76-82)
RowGet(row, key, default) == IF key \in DOMAIN row THEN row[key] ELSE default

\* entities/bar.py, Bar(raw): the record {timestamp, open, high, low, close,
\* volume, dividend, stock_splits}; its timestamp is the instant of the epoch
\* second it was given
Bar(raw) == [raw EXCEPT !.timestamp = raw.timestamp * TicksPerSecond]

\* split() with the high and low fields taken from each other's column
SplitSwapped(rows) ==
    [i \in 1 .. Len(rows) |->
        Bar([timestamp    |-> ToEpochSeconds(rows[i].timestamp),
             open         |-> RowGet(rows[i], "open", "None"),
             high         |-> RowGet(rows[i], "low", "None"),
             low          |-> RowGet(rows[i], "high", "None"),
             close        |-> RowGet(rows[i], "close", "None"),
             volume       |-> RowGet(rows[i], "volume", "None"),
             dividend     |-> RowGet(rows[i], "dividend", 0),
             stock_splits |-> RowGet(rows[i], "stock_splits", 0)])]

\* Bars.split(self)
Split(rows) ==
    [i \in 1 .. Len(rows) |->
        Bar([timestamp    |-> ToEpochSeconds(rows[i].timestamp),
             open         |-> RowGet(rows[i], "open", "None"),
             high         |-> RowGet(rows[i], "high", "None"),
             low          |-> RowGet(rows[i], "low", "None"),
             close        |-> RowGet(rows[i], "close", "None"),
             volume       |-> RowGet(rows[i], "volume", "None"),
             dividend     |-> RowGet(rows[i], "dividend", 0),
             stock_splits |-> RowGet(rows[i], "stock_splits", 0)])]

\* Bars.get_last_price(self): self.df["close"][-1]
GetLastPrice(rows) == rows[Len(rows)].close

\* Bars.get_last_dividend(self)
GetLastDividend(rows) ==
    IF "dividend" \in Columns(rows) THEN rows[Len(rows)].dividend ELSE 0

\* Bars.filter(self, start, end): the rows of the frame it returns
FilterRows(rows, start, end) ==
    LET FromStart(r) == r.timestamp >= start[1]
        UpToEnd(r)   == r.timestamp <= end[1]
        a == IF start # <<>> THEN SelectSeq(rows, FromStart) ELSE rows
    IN  IF end # <<>> THEN SelectSeq(a, UpToEnd) ELSE a

\* Bars.filter returns self.df itself unless a mask was applied
FilterIsAlias(start, end) == start = <<>> /\ end = <<>>

\* get_momentum with pct_change() over one row instead of the whole window
GetMomentumLastStep(rows, start, end) ==
    LET df_copy == FilterRows(rows, start, end)
        n_rows  == Len(df_copy)
    IN  IF n_rows = 0 THEN Rat(0, 1)
        ELSE PctChange(Column(df_copy, "close"), 1)[n_rows]

\* Bars.get_momentum(self, start, end)
GetMomentum(rows, start, end) ==
    LET df_copy == FilterRows(rows, start, end)
        n_rows  == Len(df_copy)
    IN  IF n_rows = 0 THEN Rat(0, 1)
        ELSE PctChange(Column(df_copy, "close"), n_rows - 1)[n_rows]

\* Bars.get_total_volume(self, start, end)
GetTotalVolume(rows, start, end) ==
    LET df_copy == FilterRows(rows, start, end)
    IN  IF Len(df_copy) = 0 THEN 0 ELSE SumVolume(df_copy)

RECURSIVE InsertByTime(_, _)
InsertByTime(sorted, r) ==
    IF sorted = <<>> THEN <<r>>
    ELSE IF Head(sorted).timestamp <= r.timestamp
         THEN <<Head(sorted)>> \o InsertByTime(Tail(sorted), r)
         ELSE <<r>> \o sorted

RECURSIVE SortByTime(_)
\* the stable sort by index that a time grouper applies to the frame
SortByTime(rows) ==
    IF rows = <<>> THEN <<>>
    ELSE InsertByTime(SortByTime(SubSeq(rows, 1, Len(rows) - 1)), rows[Len(rows)])

\* left edge of the fixed-width bin that holds t
BinStart(t, frequency) == (t \div frequency) * frequency

\* the aggregation with "open": "last"
AggRowLastOpen(b, grp) ==
    IF grp = <<>>
    THEN [timestamp |-> b, nan |-> TRUE, volume |-> 0]
    ELSE [timestamp |-> b,
          open   |-> grp[Len(grp)].open,
          close  |-> grp[Len(grp)].close,
          low    |-> MinLow(grp),
          high   |-> MaxHigh(grp),
          volume |-> SumVolume(grp)]

\* .agg({"open": "first", "close": "last", "low": "min", "high": "max",
\* "volume": "sum"}) on one bin; a bin without rows gives NaN prices, which
\* the field `nan` marks
AggRow(b, grp) ==
    IF grp = <<>>
    THEN [timestamp |-> b, nan |-> TRUE, volume |-> 0]
    ELSE [timestamp |-> b,
          open   |-> grp[1].open,
          close  |-> grp[Len(grp)].close,
          low    |-> MinLow(grp),
          high   |-> MaxHigh(grp),
          volume |-> SumVolume(grp)]

\* self.df.groupby(pd.Grouper(freq=frequency)).agg(...): one row per bin
\* from the first row's bin to the last row's bin
Resample(rows, frequency) ==
    LET s  == SortByTime(rows)
        lo == BinStart(s[1].timestamp, frequency)
        hi == BinStart(s[Len(s)].timestamp, frequency)
    IN  [k \in 1 .. ((hi - lo) \div frequency) + 1 |->
            LET b == lo + (k - 1) * frequency
                InBin(r) == BinStart(r.timestamp, frequency) = b
            IN  AggRow(b, SelectSeq(s, InBin))]

\* new_df.dropna()
DropNa(rows) ==
    LET NoNaN(r) == "nan" \notin DOMAIN r
    IN  SelectSeq(rows, NoNaN)

\* Bars.aggregate_bars(self, frequency)
AggregateBars(h, self, frequency) ==
    LET new_df == DropNa(Resample(Rows(h, self), frequency))
        r  == Alloc(h)
        h2 == Store(h, r, new_df)
    IN  BarsInit(h2, [df |-> r, source |-> self.source, asset |-> self.asset])
            @@ [heap |-> h2]

---------------------------------------------------------------------------
\* Calls on Bars.  Each action is one call, from its arguments to its return
\* value or exception, recorded in ret.

Init ==
    /\ heap = [r \in Refs |-> FreeSlot]
    /\ bars = <<>>
    /\ ret = [op |-> "none", kind |-> "none"]
    /\ fetch = [pc |-> "idle"]
    /\ api_calls = <<>>

\* how a construction ended: the new object's position in bars, or the exception
Outcome(res) ==
    IF res.ok THEN [kind |-> "bars", obj |-> Len(bars) + 1]
    ELSE [kind |-> "raise", exc |-> res.exc]

Built(res) == IF res.ok THEN Append(bars, res.obj) ELSE bars

Finish(h2, bs2, rt2) ==
    /\ bars' = bs2
    /\ ret' = rt2
    /\ heap' = Collect(h2, bs2, rt2)
    /\ UNCHANGED <<fetch, api_calls>>

\* Bars(df, source, asset) on a raw frame `rows` of the caller
ConstructCall(rows, req) ==
    /\ bars = <<>>
    /\ LET r   == Alloc(heap)
           h2  == Store(heap, r, rows)
           res == BarsInit(h2, [df |-> r, source |-> req.source, asset |-> req.asset])
       IN  Finish(h2, Built(res),
                  [op |-> "Bars", n_rows |-> Len(rows), source |-> req.source,
                   asset |-> req.asset] @@ Outcome(res))

\* Bars.parse_bar_list(bar_list, source, asset) on bar records of the caller
ParseBarListCall(bar_list, req) ==
    /\ bars = <<>>
    /\ LET res == ParseBarList(heap, bar_list, req.source, req.asset)
       IN  Finish(IF res.ok THEN res.heap ELSE heap, Built(res),
                  [op |-> "parse_bar_list", n_rows |-> Len(bar_list), of_split |-> 0,
                   source |-> req.source, asset |-> req.asset] @@ Outcome(res))

\* bars[i].aggregate_bars(frequency)
AggregateBarsCall(i, frequency) ==
    /\ Len(bars) < MaxObjs
    /\ HasFree(heap)
    /\ LET res == AggregateBars(heap, bars[i], frequency)
       IN  Finish(IF res.ok THEN res.heap ELSE heap, Built(res),
                  [op |-> "aggregate_bars", self |-> i, frequency |-> frequency]
                      @@ Outcome(res))

\* bars[i].split()
SplitCall(i) ==
    Finish(heap, bars,
           [op |-> "split", kind |-> "list", self |-> i,
            value |-> Split(Rows(heap, bars[i]))])

\* Bars.parse_bar_list on the records the last split() returned
ReconstructCall ==
    /\ ret.op = "split"
    /\ Len(bars) < MaxObjs
    /\ HasFree(heap)
    /\ LET self == bars[ret.self]
           res  == ParseBarList(heap, ret.value, self.source, self.asset)
       IN  Finish(IF res.ok THEN res.heap ELSE heap, Built(res),
                  [op |-> "parse_bar_list", n_rows |-> Len(ret.value),
                   of_split |-> ret.self,
                   source |-> self.source, asset |-> self.asset] @@ Outcome(res))

\* bars[i].get_last_price()
GetLastPriceCall(i) ==
    Finish(heap, bars,
           [op |-> "get_last_price", kind |-> "value", self |-> i,
            value |-> GetLastPrice(Rows(heap, bars[i]))])

\* bars[i].get_last_dividend()
GetLastDividendCall(i) ==
    Finish(heap, bars,
           [op |-> "get_last_dividend", kind |-> "value", self |-> i,
            value |-> GetLastDividend(Rows(heap, bars[i]))])

\* bars[i].filter(start, end): returns a frame, the receiver's own when no
\* bound is given
FilterCall(i, start, end) ==
    LET h0 == Collect(heap, bars, [kind |-> "none"])
        r  == IF FilterIsAlias(start, end) THEN bars[i].df ELSE Alloc(h0)
        h2 == IF FilterIsAlias(start, end) THEN h0
              ELSE Store(h0, r, FilterRows(Rows(heap, bars[i]), start, end))
    IN  Finish(h2, bars,
               [op |-> "filter", kind |-> "frame", self |-> i,
                start |-> start, end |-> end, ref |-> r])

\* the caller changes the frame filter() gave it: it overwrites the close of
\* the first row
WriteFrame ==
    /\ ret.op = "filter"
    /\ heap[ret.ref].rows # <<>>
    /\ heap' = [heap EXCEPT ![ret.ref].rows[1].close = 1]
    /\ ret' = [ret EXCEPT !.op = "write"]
    /\ UNCHANGED <<bars, fetch, api_calls>>

\* bars[i].get_momentum(start, end)
GetMomentumCall(i, start, end) ==
    Finish(heap, bars,
           [op |-> "get_momentum", kind |-> "value", self |-> i,
            start |-> start, end |-> end,
            value |-> GetMomentum(Rows(heap, bars[i]), start, end)])

\* bars[i].get_total_volume(start, end)
GetTotalVolumeCall(i, start, end) ==
    Finish(heap, bars,
           [op |-> "get_total_volume", kind |-> "value", self |-> i,
            start |-> start, end |-> end,
            value |-> GetTotalVolume(Rows(heap, bars[i]), start, end)])

Next ==
    \/ \E d \in BOOLEAN, req \in Requests :
            \E rows \in RawTables(MaxLen, d) : ConstructCall(rows, req)
    \/ \E d \in BOOLEAN, req \in Requests :
            \E bar_list \in RawTables(MaxLen, d) : ParseBarListCall(bar_list, req)
    \/ \E i \in 1 .. Len(bars), f \in Frequencies : AggregateBarsCall(i, f)
    \/ \E i \in 1 .. Len(bars) : SplitCall(i)
    \/ ReconstructCall

Spec == Init /\ [][Next]_vars

\* Queries on one series.
NextQuery ==
    \/ \E req \in Requests :
            \E rows \in RawTables(MaxSeries, FALSE) : ConstructCall(rows, req)
    \/ \E req \in Requests :
            \E bar_list \in RawTables(MaxSeries, TRUE) : ParseBarListCall(bar_list, req)
    \/ \E i \in 1 .. Len(bars), start, end \in Optional(Times) :
            GetMomentumCall(i, start, end)
    \/ \E i \in 1 .. Len(bars) : GetLastPriceCall(i)
    \/ \E i \in 1 .. Len(bars) : GetLastDividendCall(i)

SpecQuery == Init /\ [][NextQuery]_vars

\* Transforms of one series, and what the caller does with their results.
NextView ==
    \/ \E req \in Requests :
            \E bar_list \in RawTables(MaxLen, TRUE) : ParseBarListCall(bar_list, req)
    \/ \E i \in 1 .. Len(bars), start, end \in Optional(Times) :
            FilterCall(i, start, end)
    \/ WriteFrame
    \/ \E i \in 1 .. Len(bars), f \in Frequencies : AggregateBarsCall(i, f)
    \/ \E i \in 1 .. Len(bars), start, end \in Optional(Times) :
            GetTotalVolumeCall(i, start, end)

SpecView == Init /\ [][NextView]_vars

---------------------------------------------------------------------------
\* lumibot/data_sources/alpaca_data.py

NY_TIMEZONE == "America/New_York"

TIMESTEP_MAPPING ==
    << [timestep |-> "minute", represntations |-> <<"1Min", "minute">>],
       [timestep |-> "day",    represntations |-> <<"1D", "day">>] >>

Range(seq) == {seq[k] : k \in 1 .. Len(seq)}

\* DataSource._parse_source_timestep(timestep, reverse): looks the token up
\* in TIMESTEP_MAPPING; an unknown token is a configuration error
ParseSourceTimestep(timestep, reverse) ==
    LET hits == {k \in 1 .. Len(TIMESTEP_MAPPING) :
                    IF reverse THEN TIMESTEP_MAPPING[k].timestep = timestep
                    ELSE timestep \in Range(TIMESTEP_MAPPING[k].represntations)}
        k == CHOOSE x \in hits : \A y \in hits : x <= y
    IN  IF hits = {}
        THEN Raise([type |-> "ConfigurationError", timestep |-> timestep])
        ELSE [ok |-> TRUE,
              value |-> IF reverse THEN TIMESTEP_MAPPING[k].represntations[1]
                        ELSE TIMESTEP_MAPPING[k].timestep]

\* AlpacaData.format_datetime(dt): ISO-8601 text of dt, a naive dt taken as
\* New York time
FormatDatetime(dt) ==
    IF dt.tzinfo # "naive" THEN [iso |-> dt.t, offset |-> dt.tzinfo]
    ELSE [iso |-> dt.t, offset |-> NY_TIMEZONE]

\* _pull_source_bars asking the provider once per symbol
PullSourceBarsPerSymbol(symbols, length, timestep, timeshift, now) ==
    LET parsed == ParseSourceTimestep(timestep, TRUE)
    IN  IF ~parsed.ok THEN parsed
        ELSE [ok |-> TRUE,
              calls |-> [k \in 1 .. Len(symbols) |->
                            [symbols |-> <<symbols[k]>>, timestep |-> parsed.value,
                             kwargs |-> [limit |-> length],
                             result |-> [kind |-> "pending"]]]]

\* AlpacaData._pull_source_bars up to its provider call: the exception it
\* raises, or the api.get_barset calls it issues.  `now` is datetime.now().
PullSourceBars(symbols, length, timestep, timeshift, now) ==
    LET parsed == ParseSourceTimestep(timestep, TRUE)
        limit  == [limit |-> length]
        kwargs == IF timeshift # <<>> /\ timeshift[1] # 0
                  THEN limit @@ [end |-> FormatDatetime(
                                   [t |-> now - timeshift[1], tzinfo |-> "naive"])]
                  ELSE limit
    IN  IF ~parsed.ok THEN parsed
        ELSE [ok |-> TRUE,
              calls |-> << [symbols |-> symbols, timestep |-> parsed.value,
                            kwargs |-> kwargs, result |-> [kind |-> "pending"]] >>]

\* what _pull_source_bars does with the provider's answer: hands it on
PullSourceBarsResult(result) == result

\* AlpacaData._parse_source_symbol_bars(response): response is one symbol's
\* frame
ParseSourceSymbolBars(h, response) ==
    LET pc == PctChange(Column(response, "close"), 1)
        df == [i \in 1 .. Len(response) |->
                 LET dy == Rat(0, response[i].close)
                 IN  [price_change |-> pc[i], dividend |-> 0, dividend_yield |-> dy,
                      return |-> RatAdd(dy, pc[i])] @@ response[i]]
        r  == Alloc(h)
        h2 == Store(h, r, df)
    IN  BarsInit(h2, [df |-> r, raw |-> response]) @@ [heap |-> h2]

RECURSIVE ParseSourceBarsFrom(_, _, _, _)
\* the loop of _parse_source_bars over response.items(), from item k on
ParseSourceBarsFrom(h, symbols, response, k) ==
    IF k > Len(symbols) THEN [ok |-> TRUE, heap |-> h, objs |-> <<>>]
    ELSE LET one == ParseSourceSymbolBars(h, response[symbols[k]])
         IN  IF ~one.ok THEN [ok |-> FALSE, exc |-> one.exc]
             ELSE LET rest == ParseSourceBarsFrom(one.heap, symbols, response, k + 1)
                  IN  IF ~rest.ok THEN rest
                      ELSE [ok |-> TRUE, heap |-> rest.heap,
                            objs |-> <<one.obj>> \o rest.objs]

\* AlpacaData._parse_source_bars(response)
ParseSourceBars(h, symbols, response) == ParseSourceBarsFrom(h, symbols, response, 1)

---------------------------------------------------------------------------
\* Calls on AlpacaData.  A fetch is two steps, split at the blocking provider
\* call: the code up to api.get_barset, then the provider's answer and the
\* return.

Symbols == {"aapl", "Msft"}

SymbolLists ==
    {<<>>} \cup {<<a>> : a \in Symbols}
           \cup {p \in Symbols \X Symbols : p[1] # p[2]}

Timesteps == {"minute", "day", "hour"}

\* timeshift: None, a zero duration, one tick
Timeshifts == Optional({0, 1})

\* the readings of datetime.now()
Clock == {MaxTime - 1, MaxTime}

ProviderErrors == {[type |-> "APIError", message |-> "rate limit exceeded"]}

\* the frames a provider may answer for one symbol when asked for `length`
\* bars: up to `length` rows in time order, with or without a dividend column
ProviderFrames(length) ==
    {RawRows([k \in 1 .. n |-> k - 1], d) : n \in 0 .. length, d \in BOOLEAN}

Idle == fetch.pc \in {"idle", "done"}

Begin(symbols, length, timestep, timeshift, now, single) ==
    /\ Idle
    /\ LET res  == PullSourceBars(symbols, length, timestep, timeshift, now)
           args == [symbols |-> symbols, length |-> length, timestep |-> timestep,
                    timeshift |-> timeshift, single |-> single]
       IN  IF res.ok
           THEN /\ fetch' = [pc |-> "waiting"] @@ args
                /\ api_calls' = res.calls
           ELSE /\ fetch' = [pc |-> "done",
                             outcome |-> [kind |-> "raise", exc |-> res.exc]] @@ args
                /\ api_calls' = <<>>
    /\ ret' = [op |-> "none", kind |-> "none"]
    /\ bars' = <<>>                       \* the caller starts afresh
    /\ heap' = Collect(heap, bars', ret')

\* self._pull_source_bars(symbols, length, timestep, timeshift)
PullSourceBarsCall(symbols, length, timestep, timeshift, now) ==
    Begin(symbols, length, timestep, timeshift, now, FALSE)

\* self._pull_source_symbol_bars(symbol, length, timestep, timeshift)
PullSourceSymbolBarsCall(symbol, length, timestep, timeshift, now) ==
    Begin(<<symbol>>, length, timestep, timeshift, now, TRUE)

\* the value the running fetch returns or the exception it raises, given the
\* provider's answer
Deliver(result) ==
    LET out == PullSourceBarsResult(result)
    IN  IF fetch.single /\ out.kind = "return"
        THEN [kind |-> "return", value |-> out.value[fetch.symbols[1]]]  \* response.df[symbol]
        ELSE out

Answer(result) ==
    /\ fetch.pc = "waiting"
    /\ api_calls' = [api_calls EXCEPT ![Len(api_calls)].result = result]
    /\ fetch' = [pc |-> "done", outcome |-> Deliver(result)] @@ fetch
    /\ UNCHANGED <<heap, bars, ret>>

\* api.get_barset returns a frame per requested symbol
ProviderReturns(response) == Answer([kind |-> "return", value |-> response])

\* api.get_barset raises
ProviderRaises(err) == Answer([kind |-> "raise", exc |-> err])

Returned == fetch.pc = "done" /\ fetch.outcome.kind = "return" /\ ret.op = "none"

\* self._parse_source_bars(response) on the response just fetched
ParseSourceBarsCall ==
    /\ Returned
    /\ ~fetch.single
    /\ LET res == ParseSourceBars(heap, fetch.symbols, fetch.outcome.value)
           rt  == [op |-> "_parse_source_bars", symbols |-> fetch.symbols,
                   response |-> fetch.outcome.value]
       IN  IF res.ok
           THEN Finish(res.heap, bars \o res.objs,
                       rt @@ [kind |-> "dict",
                              objs |-> [k \in 1 .. Len(res.objs) |-> Len(bars) + k]])
           ELSE Finish(heap, bars, rt @@ [kind |-> "raise", exc |-> res.exc])

\* self._parse_source_symbol_bars(response) on the frame just fetched
ParseSourceSymbolBarsCall ==
    /\ Returned
    /\ fetch.single
    /\ LET res == ParseSourceSymbolBars(heap, fetch.outcome.value)
       IN  Finish(IF res.ok THEN res.heap ELSE heap, Built(res),
                  [op |-> "_parse_source_symbol_bars",
                   response |-> fetch.outcome.value] @@ Outcome(res))

\* Bars.parse_bar_list on the rows of the frame just fetched, handed over
\* as a list of bar records
ParseFetchedCall(req) ==
    /\ Returned
    /\ fetch.single
    /\ ParseBarListCall(fetch.outcome.value, req)

NextSource ==
    \/ \E symbols \in SymbolLists, length \in 1 .. MaxLimit, timestep \in Timesteps,
          timeshift \in Timeshifts, now \in Clock :
            PullSourceBarsCall(symbols, length, timestep, timeshift, now)
    \/ \E symbol \in Symbols, length \in 1 .. MaxLimit, timestep \in Timesteps,
          timeshift \in Timeshifts, now \in Clock :
            PullSourceSymbolBarsCall(symbol, length, timestep, timeshift, now)
    \/ /\ fetch.pc = "waiting"
       /\ \E response \in [Range(fetch.symbols) -> ProviderFrames(fetch.length)] :
            ProviderReturns(response)
    \/ \E err \in ProviderErrors : ProviderRaises(err)
    \/ ParseSourceBarsCall
    \/ ParseSourceSymbolBarsCall
    \/ \E req \in Requests : ParseFetchedCall(req)

SpecSource == Init /\ [][NextSource]_vars

---------------------------------------------------------------------------
\* Properties.

Series(i) == Rows(heap, bars[i])

\* C1: constructing from a raw table with zero rows, by the constructor or by
\* parse_bar_list on an empty list, raises NoBarDataFound carrying the source
\* and asset, and returns no series.
C1_EmptyTableRaisesNoBarDataFound ==
    (ret.op \in {"Bars", "parse_bar_list"} /\ ret.n_rows = 0) =>
        /\ ret.kind = "raise"
        /\ ret.exc.type = "NoBarDataFound"
        /\ ret.exc = NoBarDataFound(ret.source, ret.asset)

DerivedNames == {"price_change", "dividend", "dividend_yield", "return"}

\* C3: every live Bars object has at least one row and carries the derived
\* columns price_change, dividend, dividend_yield and return.
C3_EverySeriesNonEmptyAndDerived ==
    \A i \in 1 .. Len(bars) :
        /\ Len(Series(i)) >= 1
        /\ DerivedNames \subseteq Columns(Series(i))

\* C7: in every Bars object the index is strictly increasing in time, so the
\* positionally last row is the chronologically last one.
C7_IndexStrictlyIncreasing ==
    \A i \in 1 .. Len(bars) :
        \A k \in 1 .. Len(Series(i)) - 1 :
            Series(i)[k].timestamp < Series(i)[k + 1].timestamp

\* the bucket of width f that holds the instant t
Bucket(t, f) == t \div f

\* the positions of the receiver's rows that fall in bucket b
Members(rows, f, b) == {k \in 1 .. Len(rows) : Bucket(rows[k].timestamp, f) = b}

\* position k comes before position j in time (equal instants: in row order)
Before(rows, k, j) ==
    \/ rows[k].timestamp < rows[j].timestamp
    \/ rows[k].timestamp = rows[j].timestamp /\ k <= j

RECURSIVE VolumeOver(_, _)
VolumeOver(rows, S) ==
    IF S = {} THEN 0
    ELSE LET k == CHOOSE x \in S : TRUE
         IN  rows[k].volume + VolumeOver(rows, S \ {k})

\* C5: aggregate_bars(frequency) emits exactly one row for every bucket that
\* holds a row of the receiver, with open of the bucket's first row, close of
\* its last row, the minimum low, the maximum high and the summed volume; it
\* emits no row for a bucket without rows; the total volume is kept.
C5_AggregateBuckets ==
    ret.op = "aggregate_bars" =>
        /\ ret.kind = "bars"
        /\ LET recv == Series(ret.self)
               out  == Series(ret.obj)
               f    == ret.frequency
           IN  /\ \A r \in 1 .. Len(recv) :
                    LET b == Bucket(recv[r].timestamp, f)
                        M == Members(recv, f, b)
                        first == CHOOSE k \in M : \A j \in M : Before(recv, k, j)
                        last  == CHOOSE k \in M : \A j \in M : Before(recv, j, k)
                        hits  == {k \in 1 .. Len(out) : Bucket(out[k].timestamp, f) = b}
                    IN  /\ Cardinality(hits) = 1
                        /\ \A k \in hits :
                            /\ out[k].open = recv[first].open
                            /\ out[k].close = recv[last].close
                            /\ \A j \in M : out[k].low <= recv[j].low
                            /\ \E j \in M : out[k].low = recv[j].low
                            /\ \A j \in M : out[k].high >= recv[j].high
                            /\ \E j \in M : out[k].high = recv[j].high
                            /\ out[k].volume = VolumeOver(recv, M)
               /\ \A k \in 1 .. Len(out) :
                    Members(recv, f, Bucket(out[k].timestamp, f)) # {}
               /\ VolumeOver(out, 1 .. Len(out)) = VolumeOver(recv, 1 .. Len(recv))

\* a bucket of two rows given out of time order was aggregated into one row
C5_Witness ==
    /\ ret.op = "aggregate_bars"
    /\ ret.kind = "bars"
    /\ Len(Series(ret.self)) = 2
    /\ Series(ret.self)[1].timestamp > Series(ret.self)[2].timestamp
    /\ Len(Series(ret.obj)) = 1
    /\ Series(ret.obj)[1].open = Series(ret.self)[2].open

OHLCV == {"open", "high", "low", "close", "volume"}

\* C10: split() returns one Bar record per row, in row order, with dividend
\* and stock_splits 0 where the series has no such column; parse_bar_list on
\* that collection gives a series with the same open, high, low, close and
\* volume in every row, in the same order.
C10_SplitRoundTrip ==
    /\ ret.op = "split" =>
         LET recv == Series(ret.self)
         IN  /\ Len(ret.value) = Len(recv)
             /\ \A k \in 1 .. Len(recv) :
                  /\ \A c \in OHLCV : ret.value[k][c] = recv[k][c]
                  /\ ret.value[k].dividend =
                        (IF "dividend" \in DOMAIN recv[k] THEN recv[k].dividend ELSE 0)
                  /\ ret.value[k].stock_splits =
                        (IF "stock_splits" \in DOMAIN recv[k]
                         THEN recv[k].stock_splits ELSE 0)
    /\ (ret.op = "parse_bar_list" /\ ret.of_split # 0) =>
         /\ ret.kind = "bars"
         /\ LET recv == Series(ret.of_split)
                new  == Series(ret.obj)
            IN  /\ Len(new) = Len(recv)
                /\ \A k \in 1 .. Len(recv) : \A c \in OHLCV : new[k][c] = recv[k][c]

\* a two-row series without dividend column was split and rebuilt, and the
\* rebuilt index differs from the original one
C10_Witness ==
    /\ ret.op = "parse_bar_list"
    /\ ret.of_split # 0
    /\ ret.kind = "bars"
    /\ Len(Series(ret.of_split)) >= 2
    /\ "dividend" \notin Columns(Series(ret.of_split))
    /\ \E k \in 1 .. Len(Series(ret.obj)) :
          /\ Series(ret.obj)[k].timestamp # Series(ret.of_split)[k].timestamp
          /\ Series(ret.obj)[k].dividend = 0

\* the positions of the rows with start <= timestamp <= end, absent bounds
\* not constraining
Window(rows, start, end) ==
    {k \in 1 .. Len(rows) :
        /\ start = <<>> \/ rows[k].timestamp >= start[1]
        /\ end = <<>> \/ rows[k].timestamp <= end[1]}

\* C9: get_momentum(start, end) is (close of the window's last row - close of
\* its first row) / close of its first row, the window being the rows with
\* start <= timestamp <= end; 0 for a window of no row or of one row; -0.01
\* for closes [100, 101, 99] over the full window.
C9_Momentum ==
    ret.op = "get_momentum" =>
        LET recv == Series(ret.self)
            W    == Window(recv, ret.start, ret.end)
            lo   == CHOOSE k \in W : \A j \in W : k <= j
            hi   == CHOOSE k \in W : \A j \in W : k >= j
        IN  /\ ret.value[2] > 0
            /\ W = {} => ret.value[1] = 0
            /\ Cardinality(W) = 1 => ret.value[1] = 0
            /\ W # {} => ret.value[1] * recv[lo].close
                            = (recv[hi].close - recv[lo].close) * ret.value[2]
            /\ (Column(recv, "close") = <<100, 101, 99>>
                    /\ ret.start = <<>> /\ ret.end = <<>>)
                => ret.value[1] * 100 = -1 * ret.value[2]

\* the momentum of closes [100, 101, 99] over a window closed on both sides
C9_Witness ==
    /\ ret.op = "get_momentum"
    /\ Column(Series(ret.self), "close") = <<100, 101, 99>>
    /\ ret.start # <<>>
    /\ ret.end # <<>>
    /\ Cardinality(Window(Series(ret.self), ret.start, ret.end)) = 3
    /\ ret.value = <<-1, 100>>

\* the provider-native token of each generic timestep
NativeToken(timestep) == IF timestep = "minute" THEN "1Min" ELSE "1D"

\* C8: an invocation of _pull_source_bars makes at most one provider call:
\* exactly one, for all the symbols and with the native timestep token, when
\* the timestep is "minute" or "day"; none when the token is unknown, a
\* configuration error being raised instead; an error of the provider call
\* reaches the caller as it was raised, without another call.
C8_OneProviderCall ==
    /\ Len(api_calls) <= 1
    /\ fetch.pc # "idle" =>
         IF fetch.timestep \in {"minute", "day"}
         THEN /\ Len(api_calls) = 1
              /\ api_calls[1].symbols = fetch.symbols
              /\ api_calls[1].timestep = NativeToken(fetch.timestep)
              /\ api_calls[1].kwargs.limit = fetch.length
         ELSE /\ api_calls = <<>>
              /\ fetch.pc = "done"
              /\ fetch.outcome.kind = "raise"
              /\ fetch.outcome.exc.type = "ConfigurationError"
    /\ (fetch.pc = "done" /\ api_calls # <<>>
            /\ api_calls[Len(api_calls)].result.kind = "raise")
         => fetch.outcome = api_calls[Len(api_calls)].result

\* a fetch of two symbols ended with the provider's error
C8_Witness ==
    /\ fetch.pc = "done"
    /\ Len(fetch.symbols) = 2
    /\ Len(api_calls) = 1
    /\ api_calls[1].symbols = fetch.symbols
    /\ api_calls[1].result.kind = "raise"
    /\ fetch.outcome.kind = "raise"
    /\ fetch.outcome.exc \in ProviderErrors

\* the laws of the derived columns on the rows of a series built from the
\* table `given`
DerivedLaws(rows, given) ==
    /\ Len(rows) = Len(given)
    /\ \A i \in 1 .. Len(rows) :
        LET r == rows[i]
        IN  /\ DerivedNames \subseteq DOMAIN r
            /\ r.dividend_yield[2] > 0
            /\ r.dividend_yield[1] * r.close = r.dividend * r.dividend_yield[2]
            /\ r.return = RatAdd(r.dividend_yield, r.price_change)
            /\ IF i = 1 THEN IsNaN(r.price_change)
               ELSE /\ r.price_change[2] > 0
                    /\ r.price_change[1] * rows[i - 1].close
                         = (r.close - rows[i - 1].close) * r.price_change[2]
            /\ r.dividend = (IF "dividend" \in DOMAIN given[i]
                             THEN given[i].dividend ELSE 0)

\* C2: _parse_source_bars on a response whose frames are all non-empty
\* returns a mapping with exactly the response's symbols as keys, each to a
\* Bars built from that symbol's frame, with upper-cased source and symbol.
C2_OneSeriesPerSymbol ==
    (ret.op = "_parse_source_bars"
        /\ \A sym \in Range(ret.symbols) : ret.response[sym] # <<>>) =>
        /\ ret.kind = "dict"
        /\ Len(ret.objs) = Len(ret.symbols)
        /\ \A k \in 1 .. Len(ret.symbols) :
            LET b == bars[ret.objs[k]]
            IN  /\ b.source = Upper(b.source)
                /\ b.symbol = Upper(ret.symbols[k])
                /\ Len(Rows(heap, b)) = Len(ret.response[ret.symbols[k]])
                /\ \A i \in 1 .. Len(Rows(heap, b)) : \A c \in OHLCV :
                      Rows(heap, b)[i][c] = ret.response[ret.symbols[k]][i][c]

\* C4: normalising a non-empty raw table, a provider frame or a list of bar
\* records, gives a series whose rows obey dividend_yield = dividend / close,
\* return = dividend_yield + price_change, price_change null in the first
\* row and (close[i] - close[i-1]) / close[i-1] after it, and whose dividend
\* is the provider's, 0 when it supplied none.
C4_DerivedColumns ==
    /\ (ret.op = "_parse_source_symbol_bars" /\ ret.response # <<>>) =>
         /\ ret.kind = "bars"
         /\ DerivedLaws(Series(ret.obj), ret.response)
    /\ (ret.op = "parse_bar_list" /\ ret.kind = "bars") =>
         DerivedLaws(Series(ret.obj), bars[ret.obj].raw[1])

\* parse_bar_list taken alone: its series obey the laws of the derived columns
ParseBarListDerives ==
    (ret.op = "parse_bar_list" /\ ret.kind = "bars") =>
         DerivedLaws(Series(ret.obj), bars[ret.obj].raw[1])

\* C6: filter and aggregate_bars leave the receiver as it was, and what they
\* return shares no table with it: no later step changes the rows, source,
\* asset or symbol of a series that exists.
C6_ReceiverNeverChanges ==
    [][\A i \in 1 .. Len(bars) :
          /\ i <= Len(bars')
          /\ bars'[i] = bars[i]
          /\ heap'[bars[i].df] = heap[bars[i].df]]_vars

====
